---- MODULE Spec2Model ----
(***************************************************************************)
(* EnergyGrid data aggregator: the client of src/server.js (lines 232-449, *)
(* client.js) that fetches the telemetry of a device population in batches *)
(* from a rate-limited, signed HTTP endpoint, and the mock endpoint of the *)
(* same file (lines 1-128, server.js).                                     *)
(*                                                                         *)
(* Time is the value of Date.now() in milliseconds.  One run of            *)
(* aggregateDeviceData is a single async control flow; every action below  *)
(* is one of its continuations, from one await to the next.                *)
(***************************************************************************)
EXTENDS Integers, Sequences, FiniteSets, TLC

(***************************************************************************)
(* Program constants                                                       *)
(***************************************************************************)
SECRET_TOKEN == "interview_token_123"
MAX_BATCH_SIZE == 10
RATE_WINDOW_MS == 950

API_URL == "/device/real/query"
API_TOKEN == "interview_token_123"
BATCH_SIZE == 10
\* Mutant: an inter-batch spacing shorter than the endpoint's window.
RATE_LIMIT_SHORT == RATE_WINDOW_MS - 50

RATE_LIMIT_MS == 1000
MAX_RETRIES == 3
RETRY_DELAY_MS == 2000
TOTAL_DEVICES == 500

(***************************************************************************)
(* Bounds of the model.  A run of the model fetches a population of        *)
(* 0..MaxDevices identifiers in batches of 1..MaxBatchSize (the program    *)
(* runs with TOTAL_DEVICES and BATCH_SIZE).                                *)
(***************************************************************************)
MaxDevices == 2
MaxBatchSize == 2
\* At most MaxDelays steps of a run take longer than the least they can.
MaxDelays == 1
\* The mock endpoint on its own: requests arrive for MaxServerSpan
\* milliseconds.
MaxServerSpan == 2850
\* createBatches on its own: populations and batch sizes up to these.
MaxPopulation == 12
MaxSize == 6
\* createBatches' loop step by step: populations up to MaxLoopPopulation,
\* batch sizes in -MaxNegativeSize..MaxLoopSize, and the number of elements at
\* which the engine stops growing an array (2^32 - 1 elements, or the heap's
\* limit before that).
MaxLoopPopulation == 4
MaxNegativeSize == 2
MaxLoopSize == 3
MaxArrayLength == 6
\* Two activations side by side: populations up to MaxOverlapDevices.
MaxOverlapDevices == 7

\* Date.now() when the run is triggered.
StartTimes == {10000}
\* One-way network latencies, and the time a timer fires late.
Latencies == {0, 500}
TimerLag == {0, 500}
\* HTTP statuses other than 200 and 429 an endpoint may answer with.
OtherStatuses == {500}
\* How long after a run has returned the next one is triggered.
RunGaps == {0, 1000}

Min(a, b) == IF a < b THEN a ELSE b

Max(a, b) == IF a > b THEN a ELSE b

(***************************************************************************)
(* generateSerialNumbers: "SN-" followed by the index padded to 3 digits.  *)
(***************************************************************************)
padStart3(n) ==
  IF n < 1000 THEN <<(n \div 100) % 10, (n \div 10) % 10, n % 10>>
  ELSE <<n>>

serialNumber(n) == <<"SN-">> \o padStart3(n)

generateSerialNumbers(count) == [k \in 1..count |-> serialNumber(k - 1)]

(***************************************************************************)
(* createBatches: for (i = 0; i < array.length; i += batchSize)            *)
(*                  batches.push(array.slice(i, i + batchSize))            *)
(***************************************************************************)
\* Mutant: the end index taken as inclusive.
sliceInclusive(array, from, to) ==
  SubSeq(array, from + 1, Min(to + 1, Len(array)))

\* Array.prototype.slice's reading of an index: a negative one counts from
\* the end, and both are clamped to 0..length.
relativeIndex(k, len) == IF k < 0 THEN Max(len + k, 0) ELSE Min(k, len)

slice(array, from, to) ==
  SubSeq(array, relativeIndex(from, Len(array)) + 1,
         relativeIndex(to, Len(array)))

RECURSIVE createBatchesFrom(_, _, _)
createBatchesFrom(array, batchSize, i) ==
  IF i < Len(array)
  THEN <<slice(array, i, i + batchSize)>> \o
       createBatchesFrom(array, batchSize, i + batchSize)
  ELSE <<>>

createBatches(array, batchSize) == createBatchesFrom(array, batchSize, 0)

(***************************************************************************)
(* Signature: MD5(URL + Token + Timestamp).  The digest is modelled as a   *)
(* tagged value of the string it is taken of, the string as the sequence   *)
(* of its parts.                                                           *)
(***************************************************************************)
toString(n) == <<"dec", n>>

md5hex(s) == <<"md5", s>>

generateSignature(timestamp) == md5hex(<<API_URL, API_TOKEN, timestamp>>)

(***************************************************************************)
(* HTTP messages.  A request carries the two headers and the JSON body     *)
(* {sn_list}.  A response carries a status and a body; shape tells what    *)
(* JSON.parse makes of the body of a 200:                                  *)
(*   "array"   an object whose data is the array items                     *)
(*   "absent"  an object without data (or with a falsy one)                *)
(*   "scalar"  an object whose data is truthy and not iterable             *)
(*   "garbage" not JSON, or JSON null: parsing or parsed.data throws       *)
(*   "text"    the body of a non-200 answer, kept as the raw text          *)
(***************************************************************************)
Request(url, signature, timestamp, sn_list) ==
  [url |-> url, signature |-> signature, timestamp |-> timestamp,
   sn_list |-> sn_list, isArray |-> TRUE]

Response(statusCode, shape, items, text) ==
  [statusCode |-> statusCode, shape |-> shape, items |-> items, text |-> text]

NoHeader == <<"undefined">>

\* A header sent with no value.
EmptyHeader == <<"">>

\* !header
missing(header) == header \in {NoHeader, EmptyHeader}

\* One device record of the mock endpoint ({sn, power, status,
\* last_updated}); the client reads none of its fields.
deviceRecord(sn) == [sn |-> sn]

(***************************************************************************)
(* Mock endpoint: rateLimiter, securityCheck and the POST handler.         *)
(***************************************************************************)
\* Mutant: a request let through one millisecond early.
rateLimitedLate(time, last) == time - last < RATE_WINDOW_MS - 1

rateLimited(time, last) == time - last < RATE_WINDOW_MS

\* Mutant: the headers looked for, the digest not compared.
securityCheckPresence(req) ==
  IF missing(req.timestamp) \/ missing(req.signature)
  THEN Response(401, "text", <<>>, "Missing headers: signature or timestamp")
  ELSE Response(200, "next", <<>>, "")

securityCheck(req) ==
  IF missing(req.timestamp) \/ missing(req.signature)
  THEN Response(401, "text", <<>>, "Missing headers: signature or timestamp")
  ELSE IF req.signature # md5hex(<<req.url, SECRET_TOKEN, req.timestamp>>)
  THEN Response(401, "text", <<>>, "Invalid Signature")
  ELSE Response(200, "next", <<>>, "")

queryHandler(req) ==
  IF ~req.isArray
  THEN Response(400, "text", <<>>, "sn_list array is required")
  ELSE IF Len(req.sn_list) > MAX_BATCH_SIZE
  THEN Response(400, "text", <<>>, "Batch size limit exceeded")
  ELSE Response(200, "array",
                [k \in 1..Len(req.sn_list) |-> deviceRecord(req.sn_list[k])],
                "")

\* Mutant: lastRequestTime set by the handler, for a request it serves.
mockEndpointServedOnly(req, time, last) ==
  IF rateLimited(time, last)
  THEN [resp |-> Response(429, "text", <<>>, "Too Many Requests. Limit: 1 req/sec."),
        last |-> last]
  ELSE LET auth == securityCheck(req)
           resp == IF auth.statusCode # 200 THEN auth ELSE queryHandler(req)
       IN  [resp |-> resp,
            last |-> IF resp.statusCode = 200 THEN time ELSE last]

\* The answer to a request that arrives at `time`, and the new
\* lastRequestTime.
mockEndpoint(req, time, last) ==
  IF rateLimited(time, last)
  THEN [resp |-> Response(429, "text", <<>>, "Too Many Requests. Limit: 1 req/sec."),
        last |-> last]
  ELSE LET auth == securityCheck(req)
       IN  [resp |-> IF auth.statusCode # 200 THEN auth ELSE queryHandler(req),
            last |-> time]

(***************************************************************************)
(* Any other endpoint: every status, and for a 200 every shape of body.    *)
(***************************************************************************)
Reverse(s) == [k \in 1..Len(s) |-> s[Len(s) + 1 - k]]

recordsOf(sn_list) == [k \in 1..Len(sn_list) |-> deviceRecord(sn_list[k])]

AnyResponses(req) ==
  {Response(200, "array", l, "") :
     l \in {recordsOf(req.sn_list), Reverse(recordsOf(req.sn_list)),
            SubSeq(recordsOf(req.sn_list), 1, Len(req.sn_list) - 1)}}
  \cup {Response(200, sh, <<>>, "") : sh \in {"absent", "scalar", "garbage"}}
  \cup {Response(429, "text", <<>>, "Too Many Requests")}
  \cup {Response(st, "text", <<>>, "error") : st \in OtherStatuses}

\* Endpoints that answer every request alike: with the records of the
\* identifiers asked for, with 429, with 500, with a body that is no JSON,
\* or with a data that is no list.
FixedEndpoints == {"echo", "limited", "broken", "garbled", "opaque"}

fixedResponse(kind, req) ==
  CASE kind = "echo" -> Response(200, "array", recordsOf(req.sn_list), "")
    [] kind = "limited" -> Response(429, "text", <<>>, "Too Many Requests")
    [] kind = "broken" -> Response(500, "text", <<>>, "error")
    [] kind = "garbled" -> Response(200, "garbage", <<>>, "")
    [] kind = "opaque" -> Response(200, "scalar", <<>>, "")

(***************************************************************************)
(* fetchDeviceData: the request it writes, and how its promise settles on  *)
(* the response's 'end' and on the request's 'error'.                      *)
(***************************************************************************)
Result(success, shape, data, error, statusCode) ==
  [success |-> success, shape |-> shape, data |-> data, error |-> error,
   statusCode |-> statusCode]

Settled(how, value) == [how |-> how, value |-> value]

\* Mutant: the clock read a second time for the header.
fetchRequestSignedEarly(snList, time) ==
  Request(API_URL, generateSignature(toString(time)), toString(time + 1), snList)

fetchRequest(snList, time) ==
  Request(API_URL, generateSignature(toString(time)), toString(time), snList)

onEnd(res) ==
  IF res.statusCode = 200
  THEN IF res.shape # "garbage"
       THEN Settled("resolve",
                    Result(TRUE, res.shape, res.items, "undefined", res.statusCode))
       ELSE Settled("reject",
                    Result(FALSE, "none", <<>>, "Failed to parse response",
                           res.statusCode))
  ELSE Settled("resolve",
               Result(FALSE, "none", <<>>, res.text, res.statusCode))

onError == Settled("reject", Result(FALSE, "none", <<>>, "connection error", 0))

(***************************************************************************)
(* fetchWithRetry: whether the settled attempt is retried.                 *)
(***************************************************************************)
\* Mutant: one retry too many (<= for <).
shouldRetryOnceMore(settled, count) ==
  IF settled.how = "resolve"
  THEN ~settled.value.success /\ settled.value.statusCode = 429
       /\ count <= MAX_RETRIES
  ELSE count <= MAX_RETRIES

\* Mutant: every failed answer retried, not only a 429.
shouldRetryAnyFailure(settled, count) ==
  IF settled.how = "resolve"
  THEN ~settled.value.success /\ count < MAX_RETRIES
  ELSE count < MAX_RETRIES

\* Mutant: the outcome returned as it is, never retried.
shouldRetryNever(settled, count) == FALSE

shouldRetry(settled, count) ==
  IF settled.how = "resolve"
  THEN ~settled.value.success /\ settled.value.statusCode = 429
       /\ count < MAX_RETRIES
  ELSE count < MAX_RETRIES

\* Mutant: the delay doubled with every retry.
retryDelayBackoff(count) == RETRY_DELAY_MS * (2 ^ count)

\* The argument of sleep() before the retry that follows attempt number
\* `count` (0-based), in both branches.
retryDelay(count) == RETRY_DELAY_MS

(***************************************************************************)
(* aggregateDeviceData: the tests of its loop body.                        *)
(***************************************************************************)
truthy(result) == result.shape \in {"array", "scalar"}

isSuccess(result) == result.success /\ truthy(result)

iterable(result) == result.shape = "array"

\* Mutant: the loop index as it is, for the position.
errorDescriptorZeroBased(index, batch, result) ==
  [batch |-> index, serialNumbers |-> batch, error |-> result.error,
   statusCode |-> result.statusCode]

errorDescriptor(index, batch, result) ==
  [batch |-> index + 1, serialNumbers |-> batch, error |-> result.error,
   statusCode |-> result.statusCode]

\* Mutant: a failed outcome thrown instead of recorded.
throwsOnFailure(result) == ~iterable(result)

throws(result) == isSuccess(result) /\ ~iterable(result)

\* Mutant: no pause before the last batch.
pauseNeededButLast(index, count) == index < count - 2

pauseNeeded(index, count) == index < count - 1

\* The for loop's test after i++.
loopContinues(index, count) == index + 1 < count

(***************************************************************************)
(* State                                                                   *)
(***************************************************************************)
VARIABLES
  now,              \* Date.now()
  lastRequestTime,  \* the mock endpoint's module-level lastRequestTime
  endpoint,         \* "mock": the endpoint of this repository; "any": another,
                    \* free in its answers; or one that answers every
                    \* request alike (FixedEndpoints)
  batchSize,        \* the batch size of the run
  pc,               \* where the run is: idle, awaiting, retrySleep, pause,
                    \* returned, thrown
  startTime,        \* aggregateDeviceData's startTime
  serialNumbers,    \* its population
  batches,          \* its batches
  i,                \* its loop index (0-based)
  retryCount,       \* fetchWithRetry's retryCount of the attempt under way
  aggregatedData,   \* its accumulator of records
  errors,           \* its accumulator of failure descriptors
  wire,             \* the request or response in flight
  timerDue,         \* when the pending timer of sleep() is due (0: none)
  report,           \* the reports returned, one per run that has returned
  httpStatus,       \* the status GET /aggregate answered with (0: not yet)
  calls,            \* history: network calls made for the current batch
  sleeps,           \* history: retry sleeps taken for the current batch
  outcomes,         \* history: what each attempt of the current batch settled to
  pauses,           \* history: inter-batch pauses taken
  dispatched,       \* history: start times of the first attempt of the
                    \* last two batches dispatched
  ended,            \* history: when the last outcome reached the driver
  delayed,          \* history: steps that took longer than the least
  arrivals,         \* history: the last two arrival times at the mock endpoint
  rejected,         \* history: requests of the run answered 429 by rateLimiter
  attempted,        \* history: the batches dispatched (1-based), in order
  delivered,        \* history: per outcome fetchWithRetry returned to the
                    \* loop, the batch (1-based) and the records it carried
  admitted,         \* history: the arrival times of the last two requests
                    \* rateLimiter let through
  freshStart,       \* history: lastRequestTime was 950ms old when the run began
  retries,          \* history: per retry of the current batch, the outcome it
                    \* follows and the delay slept for
  runs              \* the activations of aggregateDeviceData that GET /aggregate
                    \* has under way side by side, each with its own locals

vars ==
  <<now, lastRequestTime, endpoint, batchSize, pc, startTime, serialNumbers,
    batches, i, retryCount, aggregatedData, errors, wire, timerDue, report,
    httpStatus, calls, sleeps, outcomes, pauses, dispatched, ended, arrivals,
    rejected, attempted, delivered, freshStart, delayed, retries, admitted,
    runs>>

serverVars == <<lastRequestTime, arrivals, rejected, admitted>>
\* What no step of a run on its own changes: how it is set up, and the
\* activations beside it.
configVars == <<endpoint, batchSize, freshStart, runs>>

Idle == [phase |-> "idle", req |-> Request(API_URL, NoHeader, NoHeader, <<>>),
         resp |-> Response(0, "text", <<>>, "")]

\* The activations of aggregateDeviceData side by side.
Runs == {1, 2}

\* The locals of an activation that has not begun, and the history of the
\* calls it has made (sent) and of the outcomes it has got (settled).
IdleRun ==
  [pc |-> "idle", due |-> 0, startTime |-> 0, batches |-> <<>>, i |-> 0,
   retryCount |-> 0, aggregatedData |-> <<>>, errors |-> <<>>, wire |-> Idle,
   report |-> <<>>, httpStatus |-> 0, sent |-> 0, settled |-> 0]

Last(s) == s[Len(s)]

lastTwo(s) == IF Len(s) > 2 THEN SubSeq(s, Len(s) - 1, Len(s)) ELSE s

\* What an attempt settled to, for the history.
kindOf(settled) ==
  IF settled.how = "reject"
  THEN IF settled.value.statusCode = 0 THEN "network" ELSE "parse"
  ELSE IF settled.value.statusCode = 200 THEN settled.value.shape
  ELSE IF settled.value.statusCode = 429 THEN "429"
  ELSE "other"

Init ==
  /\ now \in StartTimes
  /\ endpoint \in {"mock", "any"}
  /\ lastRequestTime \in IF endpoint = "mock" THEN {0, now - 500, now} ELSE {0}
  /\ batchSize \in 1..MaxBatchSize
  /\ serialNumbers \in {generateSerialNumbers(n) : n \in 0..MaxDevices}
  /\ pc = "idle"
  /\ startTime = 0
  /\ batches = <<>>
  /\ i = 0
  /\ retryCount = 0
  /\ aggregatedData = <<>>
  /\ errors = <<>>
  /\ wire = Idle
  /\ timerDue = 0
  /\ report = <<>>
  /\ httpStatus = 0
  /\ calls = 0
  /\ sleeps = 0
  /\ outcomes = <<>>
  /\ pauses = 0
  /\ dispatched = <<>>
  /\ ended = 0
  /\ delayed = 0
  /\ arrivals = <<>>
  /\ rejected = 0
  /\ attempted = <<>>
  /\ delivered = <<>>
  /\ freshStart = (now - lastRequestTime >= RATE_WINDOW_MS)
  /\ retries = <<>>
  /\ admitted = <<>>
  /\ runs = <<>>

(***************************************************************************)
(* fetchDeviceData up to req.end(): one network call.                      *)
(***************************************************************************)
Send(batch, time) ==
  /\ wire' = [Idle EXCEPT !.phase = "toServer", !.req = fetchRequest(batch, time)]
  /\ pc' = "awaiting"

\* The loop body of batch `index` (0-based) up to its first network call.
Dispatch(index, batch, time) ==
  /\ i' = index
  /\ retryCount' = 0
  /\ Send(batch, time)
  /\ calls' = 1
  /\ sleeps' = 0
  /\ outcomes' = <<>>
  /\ dispatched' = lastTwo(Append(dispatched, time))
  /\ attempted' = Append(attempted, index + 1)
  /\ retries' = <<>>

(***************************************************************************)
(* The end of aggregateDeviceData, and GET /aggregate's answer.            *)
(***************************************************************************)
executionTimeOf(start, end) == ((end - start) + 5) \div 10

\* Mutant: success told from the failures recorded.
finalReportSuccessIfClean(data, errs, start, end) ==
  [success |-> errs = <<>>,
   totalDevices |-> Len(serialNumbers),
   fetchedDevices |-> Len(data),
   failedBatches |-> Len(errs),
   executionTimeSeconds |-> executionTimeOf(start, end),
   data |-> data,
   errors |-> errs]

\* Mutant: the population reported as fetched.
finalReportAllFetched(data, errs, start, end) ==
  [success |-> TRUE,
   totalDevices |-> Len(serialNumbers),
   fetchedDevices |-> Len(serialNumbers),
   failedBatches |-> Len(errs),
   executionTimeSeconds |-> executionTimeOf(start, end),
   data |-> data,
   errors |-> errs]

finalReport(data, errs, start, end) ==
  [success |-> TRUE,
   totalDevices |-> Len(serialNumbers),
   fetchedDevices |-> Len(data),
   failedBatches |-> Len(errs),
   executionTimeSeconds |-> executionTimeOf(start, end),
   data |-> data,
   errors |-> errs]

Finish(data, errs, start, end) ==
  /\ report' = Append(report, finalReport(data, errs, start, end))
  /\ httpStatus' = 200
  /\ pc' = "returned"

(***************************************************************************)
(* GET /aggregate: aggregateDeviceData up to its first await.              *)
(***************************************************************************)
\* A run triggered at `time`.
StartRun(time) ==
  /\ now' = time
  /\ startTime' = time
  /\ batches' = createBatches(serialNumbers, batchSize)
  /\ aggregatedData' = <<>>
  /\ errors' = <<>>
  /\ pauses' = 0
  /\ ended' = 0
  /\ delivered' = <<>>
  /\ IF 0 < Len(batches')
     THEN /\ i' = 0
          /\ retryCount' = 0
          /\ Send(batches'[1], time)
          /\ calls' = 1
          /\ sleeps' = 0
          /\ outcomes' = <<>>
          /\ dispatched' = <<time>>
          /\ attempted' = <<1>>
          /\ retries' = <<>>
          /\ UNCHANGED report
          /\ httpStatus' = 0
     ELSE /\ Finish(<<>>, <<>>, time, time)
          /\ i' = 0
          /\ retryCount' = 0
          /\ wire' = Idle
          /\ calls' = 0
          /\ sleeps' = 0
          /\ outcomes' = <<>>
          /\ dispatched' = <<>>
          /\ attempted' = <<>>
          /\ retries' = <<>>
  /\ UNCHANGED <<serialNumbers, timerDue, delayed>>
  /\ UNCHANGED <<serverVars, configVars>>

Aggregate ==
  /\ pc = "idle"
  /\ StartRun(now)

\* GET /aggregate once more, after the run before it has returned.
AggregateAgain ==
  /\ pc = "returned"
  /\ Len(report) = 1
  /\ \E gap \in RunGaps : StartRun(now + gap)

(***************************************************************************)
(* The mock endpoint receives the request in flight.                       *)
(***************************************************************************)
\* A step takes d longer than the least it can.
Delay(d) ==
  /\ d = 0 \/ delayed < MaxDelays
  /\ delayed' = IF d = 0 THEN delayed ELSE delayed + 1

MockHandle ==
  /\ endpoint = "mock"
  /\ wire.phase = "toServer"
  /\ \E lat \in Latencies :
       LET time == now + lat
           served == mockEndpoint(wire.req, time, lastRequestTime)
       IN  /\ Delay(lat)
           /\ now' = time
           /\ lastRequestTime' = served.last
           /\ wire' = [wire EXCEPT !.phase = "toClient", !.resp = served.resp]
           /\ arrivals' = lastTwo(Append(arrivals, time))
           /\ rejected' = IF served.resp.statusCode = 429 THEN rejected + 1
                          ELSE rejected
           /\ admitted' = IF served.resp.statusCode = 429 THEN admitted
                          ELSE lastTwo(Append(admitted, time))
  /\ UNCHANGED <<pc, startTime, serialNumbers, batches, i, retryCount,
                 aggregatedData, errors, timerDue, report, httpStatus, calls,
                 sleeps, outcomes, pauses, dispatched, ended, attempted,
                 delivered, retries>>
  /\ UNCHANGED configVars

(***************************************************************************)
(* The continuation of the run when the attempt under way settles at       *)
(* `time`: fetchWithRetry's decision and, when it returns, the rest of the *)
(* loop body of aggregateDeviceData up to its next await.                  *)
(***************************************************************************)
\* Mutant: the accumulator assigned, not appended to.
pushAllReplace(data, items) == items

\* Mutant: the records put in front (unshift for push).
unshiftAll(data, items) == items \o data

pushAll(data, items) == data \o items

Settle(settled, time) ==
  LET result == settled.value
      ok     == isSuccess(result)
      count  == Len(batches)
      data2  == IF ok THEN pushAll(aggregatedData, result.data)
                ELSE aggregatedData
      errs2  == IF ok THEN errors
                ELSE Append(errors, errorDescriptor(i, batches[i + 1], result))
      Kept   == /\ wire' = Idle
                /\ outcomes' = Append(outcomes, kindOf(settled))
                /\ UNCHANGED <<i, retryCount, calls, dispatched, attempted,
                               retries>>
      Pushed == /\ aggregatedData' = data2
                /\ errors' = errs2
                /\ ended' = time
                /\ delivered' = Append(delivered, [batch |-> i + 1,
                                                   items |-> result.data])
  IN  /\ now' = time
      /\ IF shouldRetry(settled, retryCount)
         THEN \* sleep(RETRY_DELAY_MS), then the next attempt
              /\ Kept
              /\ pc' = "retrySleep"
              /\ timerDue' = time + retryDelay(retryCount)
              /\ sleeps' = sleeps + 1
              /\ UNCHANGED <<aggregatedData, errors, report, httpStatus, ended,
                             delivered>>
         ELSE IF throws(result)
         THEN \* push(...result.data) throws: GET /aggregate answers 500
              /\ Kept
              /\ pc' = "thrown"
              /\ httpStatus' = 500
              /\ ended' = time
              /\ UNCHANGED <<aggregatedData, errors, report, timerDue, sleeps,
                             delivered>>
         ELSE IF pauseNeeded(i, count)
         THEN \* sleep(RATE_LIMIT_MS), then the next turn of the loop
              /\ Kept
              /\ Pushed
              /\ pc' = "pause"
              /\ timerDue' = time + RATE_LIMIT_MS
              /\ UNCHANGED <<report, httpStatus, sleeps>>
         ELSE IF loopContinues(i, count)
         THEN \* the next turn of the loop at once
              /\ Pushed
              /\ Dispatch(i + 1, batches[i + 2], time)
              /\ UNCHANGED <<report, httpStatus, timerDue>>
         ELSE \* the loop is over
              /\ Kept
              /\ Pushed
              /\ Finish(data2, errs2, startTime, time)
              /\ UNCHANGED <<timerDue, sleeps>>
      /\ UNCHANGED <<startTime, serialNumbers, batches, pauses>>
      /\ UNCHANGED <<serverVars, configVars>>

\* res.on('end'): the response of the mock endpoint has arrived.
ResponseEnd ==
  /\ pc = "awaiting"
  /\ wire.phase = "toClient"
  /\ \E lat \in Latencies : Delay(lat) /\ Settle(onEnd(wire.resp), now + lat)

\* res.on('end'): another endpoint has answered the request in flight, and
\* its response has arrived.
AnyAnswer ==
  /\ endpoint = "any"
  /\ pc = "awaiting"
  /\ wire.phase = "toServer"
  /\ \E lat \in Latencies, resp \in AnyResponses(wire.req) :
       Delay(lat) /\ Settle(onEnd(resp), now + lat)

\* req.on('error'): the connection failed, before the request arrived or
\* before the response did.
ConnectionError ==
  /\ pc = "awaiting"
  /\ wire.phase \in {"toServer", "toClient"}
  /\ \E lat \in Latencies : Delay(lat) /\ Settle(onError, now + lat)

\* res.on('end'): an endpoint that answers every request alike has answered
\* the request in flight, and its response has arrived.
FixedAnswer ==
  /\ endpoint \in FixedEndpoints
  /\ pc = "awaiting"
  /\ wire.phase = "toServer"
  /\ \E lat \in Latencies :
       Delay(lat) /\ Settle(onEnd(fixedResponse(endpoint, wire.req)), now + lat)

(***************************************************************************)
(* The timer of sleep(RETRY_DELAY_MS) fires: fetchWithRetry calls itself   *)
(* with retryCount + 1, up to the next network call.                       *)
(***************************************************************************)
RetryWake ==
  /\ pc = "retrySleep"
  /\ \E lag \in TimerLag :
       LET time == Max(now, timerDue) + lag
       IN  /\ Delay(lag)
           /\ now' = time
           /\ Send(batches[i + 1], time)
           /\ retries' = Append(retries, [after |-> Last(outcomes),
                                          delay |-> timerDue - now])
  /\ retryCount' = retryCount + 1
  /\ calls' = calls + 1
  /\ timerDue' = 0
  /\ UNCHANGED <<startTime, serialNumbers, batches, i, aggregatedData, errors,
                 report, httpStatus, sleeps, outcomes, pauses, dispatched,
                 ended, attempted, delivered>>
  /\ UNCHANGED <<serverVars, configVars>>

(***************************************************************************)
(* The timer of sleep(RATE_LIMIT_MS) fires: the loop goes to the next      *)
(* batch, up to its first network call.                                    *)
(***************************************************************************)
PauseWake ==
  /\ pc = "pause"
  /\ \E lag \in TimerLag :
       LET time == Max(now, timerDue) + lag
       IN  /\ Delay(lag)
           /\ now' = time
           /\ IF loopContinues(i, Len(batches))
              THEN /\ Dispatch(i + 1, batches[i + 2], time)
                   /\ UNCHANGED <<report, httpStatus>>
              ELSE /\ Finish(aggregatedData, errors, startTime, time)
                   /\ UNCHANGED <<i, retryCount, wire, calls, sleeps, outcomes,
                                  dispatched, attempted, retries>>
  /\ timerDue' = 0
  /\ pauses' = pauses + 1
  /\ UNCHANGED <<startTime, serialNumbers, batches, aggregatedData, errors,
                 ended, delivered>>
  /\ UNCHANGED <<serverVars, configVars>>

Next ==
  \/ Aggregate
  \/ MockHandle
  \/ AnyAnswer
  \/ ResponseEnd
  \/ ConnectionError
  \/ RetryWake
  \/ PauseWake

Spec == Init /\ [][Next]_vars

\* The event loop fires a timer that is due, the endpoint answers a request
\* that has reached it, and every network call yields an outcome: the response
\* or a connection error.
FairSpec ==
  /\ Spec
  /\ WF_vars(RetryWake)
  /\ WF_vars(PauseWake)
  /\ WF_vars(MockHandle)
  /\ WF_vars(ResponseEnd \/ AnyAnswer \/ ConnectionError)

(***************************************************************************)
(* Two runs of the aggregation, the second triggered after the first has   *)
(* returned, against an endpoint whose answers are determined by the       *)
(* requests it gets: the mock endpoint, whose lastRequestTime lives on     *)
(* from one run to the next, or one of FixedEndpoints.  Every request is   *)
(* answered: no connection fails.                                          *)
(***************************************************************************)
InitTwice ==
  /\ now \in StartTimes
  /\ endpoint \in {"mock"} \cup FixedEndpoints
  /\ lastRequestTime \in IF endpoint = "mock" THEN {0, now - 500, now} ELSE {0}
  /\ batchSize \in 1..MaxBatchSize
  /\ serialNumbers \in {generateSerialNumbers(n) : n \in 0..MaxDevices}
  /\ pc = "idle"
  /\ startTime = 0
  /\ batches = <<>>
  /\ i = 0
  /\ retryCount = 0
  /\ aggregatedData = <<>>
  /\ errors = <<>>
  /\ wire = Idle
  /\ timerDue = 0
  /\ report = <<>>
  /\ httpStatus = 0
  /\ calls = 0
  /\ sleeps = 0
  /\ outcomes = <<>>
  /\ pauses = 0
  /\ dispatched = <<>>
  /\ ended = 0
  /\ delayed = 0
  /\ arrivals = <<>>
  /\ rejected = 0
  /\ attempted = <<>>
  /\ delivered = <<>>
  /\ freshStart = (now - lastRequestTime >= RATE_WINDOW_MS)
  /\ retries = <<>>
  /\ admitted = <<>>
  /\ runs = <<>>

NextTwice ==
  \/ Aggregate
  \/ AggregateAgain
  \/ MockHandle
  \/ FixedAnswer
  \/ ResponseEnd
  \/ RetryWake
  \/ PauseWake

SpecTwice == InitTwice /\ [][NextTwice]_vars

(***************************************************************************)
(* The mock endpoint on its own, serving whatever requests reach it from   *)
(* whatever callers.  Node runs the middleware chain of one request to its *)
(* response without interleaving another, so a request is one step.        *)
(***************************************************************************)
\* Time from one arrival to the next.
ArrivalGaps == {0, RATE_WINDOW_MS - 1, RATE_WINDOW_MS}

ServerUrls == {API_URL, "/device/real/query?page=2"}

ServerTimestamps == {NoHeader, EmptyHeader, toString(1)}

ServerSignatures ==
  {NoHeader, EmptyHeader, <<"md5", <<"forged">>>>}
  \cup {md5hex(<<u, SECRET_TOKEN, toString(1)>>) : u \in ServerUrls}

\* Bodies: sn_list an array of 0, 1, MAX_BATCH_SIZE or MAX_BATCH_SIZE + 1
\* identifiers, or no array.
ServerRequests ==
  {Request(u, sg, ts, generateSerialNumbers(n)) :
     u \in ServerUrls, sg \in ServerSignatures, ts \in ServerTimestamps,
     n \in {0, 1, MAX_BATCH_SIZE, MAX_BATCH_SIZE + 1}}
  \cup {[Request(u, sg, ts, <<>>) EXCEPT !.isArray = FALSE] :
          u \in ServerUrls, sg \in ServerSignatures, ts \in ServerTimestamps}

\* The last moment a request arrives.
ServerHorizon ==
  (CHOOSE t \in StartTimes : \A u \in StartTimes : u <= t) + MaxServerSpan

InitServer ==
  /\ now \in StartTimes
  /\ endpoint = "mock"
  /\ lastRequestTime = 0
  /\ batchSize = BATCH_SIZE
  /\ serialNumbers = <<>>
  /\ pc = "idle"
  /\ startTime = 0
  /\ batches = <<>>
  /\ i = 0
  /\ retryCount = 0
  /\ aggregatedData = <<>>
  /\ errors = <<>>
  /\ wire = Idle
  /\ timerDue = 0
  /\ report = <<>>
  /\ httpStatus = 0
  /\ calls = 0
  /\ sleeps = 0
  /\ outcomes = <<>>
  /\ pauses = 0
  /\ dispatched = <<>>
  /\ ended = 0
  /\ delayed = 0
  /\ arrivals = <<>>
  /\ rejected = 0
  /\ attempted = <<>>
  /\ delivered = <<>>
  /\ freshStart = (now - lastRequestTime >= RATE_WINDOW_MS)
  /\ retries = <<>>
  /\ admitted = <<>>
  /\ runs = <<>>

\* POST /device/real/query: a request arrives and is answered.
Receive ==
  /\ \E gap \in ArrivalGaps, req \in ServerRequests :
       LET time == now + gap
           served == mockEndpoint(req, time, lastRequestTime)
       IN  /\ time <= ServerHorizon
           /\ now' = time
           /\ lastRequestTime' = served.last
           /\ wire' = [phase |-> "toClient", req |-> req, resp |-> served.resp]
           /\ arrivals' = lastTwo(Append(arrivals, time))
           /\ admitted' = IF served.resp.statusCode = 429 THEN admitted
                          ELSE lastTwo(Append(admitted, time))
  /\ UNCHANGED <<rejected, pc, startTime, serialNumbers, batches, i, retryCount,
                 aggregatedData, errors, timerDue, report, httpStatus, calls,
                 sleeps, outcomes, pauses, dispatched, ended, attempted,
                 delivered, delayed, retries>>
  /\ UNCHANGED configVars

NextServer == Receive

SpecServer == InitServer /\ [][NextServer]_vars

(***************************************************************************)
(* createBatches on its own: a population of 0..MaxPopulation identifiers  *)
(* in batches of 1..MaxSize, and the run's TOTAL_DEVICES in batches of     *)
(* BATCH_SIZE.                                                             *)
(***************************************************************************)
BatcherInputs ==
  ((0..MaxPopulation) \X (1..MaxSize)) \cup {<<TOTAL_DEVICES, BATCH_SIZE>>}

InitBatcher ==
  /\ now \in StartTimes
  /\ endpoint = "any"
  /\ lastRequestTime = 0
  /\ \E input \in BatcherInputs :
       /\ serialNumbers = generateSerialNumbers(input[1])
       /\ batchSize = input[2]
  /\ pc = "idle"
  /\ startTime = 0
  /\ batches = <<>>
  /\ i = 0
  /\ retryCount = 0
  /\ aggregatedData = <<>>
  /\ errors = <<>>
  /\ wire = Idle
  /\ timerDue = 0
  /\ report = <<>>
  /\ httpStatus = 0
  /\ calls = 0
  /\ sleeps = 0
  /\ outcomes = <<>>
  /\ pauses = 0
  /\ dispatched = <<>>
  /\ ended = 0
  /\ delayed = 0
  /\ arrivals = <<>>
  /\ rejected = 0
  /\ attempted = <<>>
  /\ delivered = <<>>
  /\ freshStart = TRUE
  /\ retries = <<>>
  /\ admitted = <<>>
  /\ runs = <<>>

Partition ==
  /\ pc = "idle"
  /\ batches' = createBatches(serialNumbers, batchSize)
  /\ pc' = "batched"
  /\ UNCHANGED <<now, startTime, serialNumbers, i, retryCount, aggregatedData,
                 errors, wire, timerDue, report, httpStatus, calls, sleeps,
                 outcomes, pauses, dispatched, ended, attempted, delivered,
                 delayed, retries>>
  /\ UNCHANGED <<serverVars, configVars>>

NextBatcher == Partition

SpecBatcher == InitBatcher /\ [][NextBatcher]_vars

(***************************************************************************)
(* createBatches step by step, one action per turn of its for loop, for    *)
(* batch sizes of either sign.  The function tests nothing but             *)
(* i < array.length; where the loop does not end by itself the array of    *)
(* batches grows until the engine refuses to grow it: push throws a        *)
(* RangeError at the array length limit ("failed"), or the process is      *)
(* aborted for want of heap before that ("crashed").                       *)
(***************************************************************************)
LoopInputs == (0..MaxLoopPopulation) \X ((0 - MaxNegativeSize)..MaxLoopSize)

InitBatchLoop ==
  /\ now \in StartTimes
  /\ endpoint = "any"
  /\ lastRequestTime = 0
  /\ \E input \in LoopInputs :
       /\ serialNumbers = generateSerialNumbers(input[1])
       /\ batchSize = input[2]
  /\ pc = "idle"
  /\ startTime = 0
  /\ batches = <<>>
  /\ i = 0
  /\ retryCount = 0
  /\ aggregatedData = <<>>
  /\ errors = <<>>
  /\ wire = Idle
  /\ timerDue = 0
  /\ report = <<>>
  /\ httpStatus = 0
  /\ calls = 0
  /\ sleeps = 0
  /\ outcomes = <<>>
  /\ pauses = 0
  /\ dispatched = <<>>
  /\ ended = 0
  /\ delayed = 0
  /\ arrivals = <<>>
  /\ rejected = 0
  /\ attempted = <<>>
  /\ delivered = <<>>
  /\ freshStart = TRUE
  /\ retries = <<>>
  /\ admitted = <<>>
  /\ runs = <<>>

loopUnchanged ==
  /\ UNCHANGED <<now, startTime, serialNumbers, retryCount, aggregatedData,
                 errors, wire, timerDue, report, httpStatus, calls, sleeps,
                 outcomes, pauses, dispatched, ended, attempted, delivered,
                 delayed, retries>>
  /\ UNCHANGED <<serverVars, configVars>>

\* const batches = []; let i = 0
LoopEnter ==
  /\ pc = "idle"
  /\ pc' = "looping"
  /\ batches' = <<>>
  /\ i' = 0
  /\ loopUnchanged

\* i < array.length: batches.push(array.slice(i, i + batchSize)); i += batchSize
LoopTurn ==
  /\ pc = "looping"
  /\ i < Len(serialNumbers)
  /\ Len(batches) < MaxArrayLength
  /\ batches' = Append(batches, slice(serialNumbers, i, i + batchSize))
  /\ i' = i + batchSize
  /\ UNCHANGED pc
  /\ loopUnchanged

\* The push that the engine cannot serve.
LoopExhaust ==
  /\ pc = "looping"
  /\ i < Len(serialNumbers)
  /\ Len(batches) >= MaxArrayLength
  /\ pc' \in {"failed", "crashed"}
  /\ UNCHANGED <<batches, i>>
  /\ loopUnchanged

\* !(i < array.length): return batches
LoopReturn ==
  /\ pc = "looping"
  /\ ~(i < Len(serialNumbers))
  /\ pc' = "batched"
  /\ UNCHANGED <<batches, i>>
  /\ loopUnchanged

NextBatchLoop ==
  \/ LoopEnter
  \/ LoopTurn
  \/ LoopExhaust
  \/ LoopReturn

\* The engine runs the loop on: a call under way takes its next step.
SpecBatchLoop ==
  InitBatchLoop /\ [][NextBatchLoop]_vars /\ WF_vars(NextBatchLoop)

(***************************************************************************)
(* GET /aggregate triggered again while a run is under way: two            *)
(* activations of aggregateDeviceData side by side in the one process,     *)
(* both against its mock endpoint and the one lastRequestTime.  Node runs  *)
(* one continuation at a time, the one whose event comes first; the        *)
(* loopback connection and the timers are taken to add no time, so `due`,  *)
(* the time of an activation's next event, is the time of its send or the  *)
(* time its sleep ends.                                                    *)
(***************************************************************************)
\* How long after the step before it the next GET /aggregate arrives.
TriggerGaps == {0, 500}

InFlight(run) == run.pc \in {"awaiting", "retrySleep", "pause"}

\* Mutant: the accumulators declared at module level, one pair for all.
frameShared(r) == 1

\* The activation whose aggregatedData and errors activation r reads and
\* writes: its own, both being locals of the call.
frameOf(r) == r

localsOf(r) ==
  [runs[r] EXCEPT !.aggregatedData = runs[frameOf(r)].aggregatedData,
                  !.errors = runs[frameOf(r)].errors]

\* The activations after activation r has become `run`.
withLocals(r, run) ==
  LET control == [runs EXCEPT ![r] = [run EXCEPT
                                        !.aggregatedData = runs[r].aggregatedData,
                                        !.errors = runs[r].errors]]
  IN  [control EXCEPT ![frameOf(r)].aggregatedData = run.aggregatedData,
                      ![frameOf(r)].errors = run.errors]

\* fetchDeviceData up to req.end(), for attempt `count` of batch `index`.
sendOf(run, index, count, time) ==
  [run EXCEPT !.pc = "awaiting", !.i = index, !.retryCount = count,
              !.wire = [Idle EXCEPT !.phase = "toServer",
                                    !.req = fetchRequest(run.batches[index + 1], time)],
              !.due = time, !.sent = @ + 1]

finishOf(run, time) ==
  [run EXCEPT !.pc = "returned",
              !.report = Append(@, finalReport(run.aggregatedData, run.errors,
                                               run.startTime, time)),
              !.httpStatus = 200, !.wire = Idle, !.due = time]

\* aggregateDeviceData up to its first await.
startOf(time) ==
  LET fresh == [IdleRun EXCEPT !.startTime = time,
                               !.batches = createBatches(serialNumbers, batchSize)]
  IN  IF 0 < Len(fresh.batches) THEN sendOf(fresh, 0, 0, time)
      ELSE finishOf(fresh, time)

\* fetchWithRetry's decision on the outcome and, when it returns, the rest
\* of the loop body up to the next await.
settleOf(run, settled, time) ==
  LET result == settled.value
      ok     == isSuccess(result)
      count  == Len(run.batches)
      heard  == [run EXCEPT !.wire = Idle, !.settled = @ + 1]
      pushed == [heard EXCEPT
                   !.aggregatedData = IF ok THEN pushAll(@, result.data) ELSE @,
                   !.errors = IF ok THEN @
                              ELSE Append(@, errorDescriptor(run.i,
                                                             run.batches[run.i + 1],
                                                             result))]
  IN  IF shouldRetry(settled, run.retryCount)
      THEN [heard EXCEPT !.pc = "retrySleep",
                         !.due = time + retryDelay(run.retryCount)]
      ELSE IF throws(result)
      THEN [heard EXCEPT !.pc = "thrown", !.httpStatus = 500, !.due = time]
      ELSE IF pauseNeeded(run.i, count)
      THEN [pushed EXCEPT !.pc = "pause", !.due = time + RATE_LIMIT_MS]
      ELSE IF loopContinues(run.i, count)
      THEN sendOf(pushed, run.i + 1, 0, time)
      ELSE finishOf(pushed, time)

InitOverlap ==
  /\ now \in StartTimes
  /\ endpoint = "mock"
  /\ lastRequestTime = 0
  /\ batchSize \in 1..MaxBatchSize
  /\ serialNumbers \in {generateSerialNumbers(n) : n \in 1..MaxOverlapDevices}
  /\ pc = "idle"
  /\ startTime = 0
  /\ batches = <<>>
  /\ i = 0
  /\ retryCount = 0
  /\ aggregatedData = <<>>
  /\ errors = <<>>
  /\ wire = Idle
  /\ timerDue = 0
  /\ report = <<>>
  /\ httpStatus = 0
  /\ calls = 0
  /\ sleeps = 0
  /\ outcomes = <<>>
  /\ pauses = 0
  /\ dispatched = <<>>
  /\ ended = 0
  /\ delayed = 0
  /\ arrivals = <<>>
  /\ rejected = 0
  /\ attempted = <<>>
  /\ delivered = <<>>
  /\ freshStart = TRUE
  /\ retries = <<>>
  /\ admitted = <<>>
  /\ runs = [r \in Runs |-> IdleRun]

\* The locals of the run on its own, which the activations do not use.
soloVars ==
  <<pc, startTime, serialNumbers, batches, i, retryCount, aggregatedData,
    errors, wire, timerDue, report, httpStatus, calls, sleeps, outcomes,
    pauses, dispatched, ended, attempted, delivered, delayed, retries,
    endpoint, batchSize, freshStart, rejected>>

\* The event of activation r is the next one of the process.
Turn(r) ==
  /\ InFlight(runs[r])
  /\ \A q \in Runs : InFlight(runs[q]) => runs[r].due <= runs[q].due

\* GET /aggregate: the first activation, or the next one while the one
\* before it is under way.
TriggerRun ==
  /\ \E r \in Runs, gap \in TriggerGaps :
       LET time == now + gap
       IN  /\ runs[r].pc = "idle"
           /\ IF r = 1 THEN gap = 0 ELSE InFlight(runs[r - 1])
           /\ \A q \in Runs : InFlight(runs[q]) => time <= runs[q].due
           /\ now' = time
           /\ runs' = withLocals(r, startOf(time))
  /\ UNCHANGED <<lastRequestTime, arrivals, admitted>>
  /\ UNCHANGED soloVars

\* POST /device/real/query: the request of an activation reaches the mock
\* endpoint and is answered.
RequestArrives ==
  /\ \E r \in Runs :
       LET time == runs[r].due
           served == mockEndpoint(runs[r].wire.req, time, lastRequestTime)
       IN  /\ Turn(r)
           /\ runs[r].wire.phase = "toServer"
           /\ now' = time
           /\ lastRequestTime' = served.last
           /\ runs' = [runs EXCEPT ![r].wire = [@ EXCEPT !.phase = "toClient",
                                                         !.resp = served.resp]]
           /\ arrivals' = lastTwo(Append(arrivals, time))
           /\ admitted' = IF served.resp.statusCode = 429 THEN admitted
                          ELSE lastTwo(Append(admitted, time))
  /\ UNCHANGED soloVars

\* res.on('end') in an activation.
ResponseEnds ==
  /\ \E r \in Runs :
       /\ Turn(r)
       /\ runs[r].pc = "awaiting"
       /\ runs[r].wire.phase = "toClient"
       /\ now' = runs[r].due
       /\ runs' = withLocals(r, settleOf(localsOf(r), onEnd(runs[r].wire.resp),
                                         runs[r].due))
  /\ UNCHANGED <<lastRequestTime, arrivals, admitted>>
  /\ UNCHANGED soloVars

\* The timer of sleep(RETRY_DELAY_MS) fires in an activation.
RetryTimer ==
  /\ \E r \in Runs :
       /\ Turn(r)
       /\ runs[r].pc = "retrySleep"
       /\ now' = runs[r].due
       /\ runs' = withLocals(r, sendOf(localsOf(r), runs[r].i,
                                       runs[r].retryCount + 1, runs[r].due))
  /\ UNCHANGED <<lastRequestTime, arrivals, admitted>>
  /\ UNCHANGED soloVars

\* The timer of sleep(RATE_LIMIT_MS) fires in an activation.
PauseTimer ==
  /\ \E r \in Runs :
       /\ Turn(r)
       /\ runs[r].pc = "pause"
       /\ now' = runs[r].due
       /\ runs' = withLocals(r,
                    IF loopContinues(runs[r].i, Len(runs[r].batches))
                    THEN sendOf(localsOf(r), runs[r].i + 1, 0, runs[r].due)
                    ELSE finishOf(localsOf(r), runs[r].due))
  /\ UNCHANGED <<lastRequestTime, arrivals, admitted>>
  /\ UNCHANGED soloVars

NextOverlap ==
  \/ TriggerRun
  \/ RequestArrives
  \/ ResponseEnds
  \/ RetryTimer
  \/ PauseTimer

SpecOverlap == InitOverlap /\ [][NextOverlap]_vars

(***************************************************************************)
(* The run as the program makes it: TOTAL_DEVICES identifiers in batches   *)
(* of BATCH_SIZE, against the mock endpoint or an endpoint that answers    *)
(* every request alike, every step taking the least time it can.           *)
(***************************************************************************)
InitFull ==
  /\ now \in StartTimes
  /\ endpoint \in {"mock"} \cup FixedEndpoints
  /\ lastRequestTime = 0
  /\ batchSize = BATCH_SIZE
  /\ serialNumbers = generateSerialNumbers(TOTAL_DEVICES)
  /\ pc = "idle"
  /\ startTime = 0
  /\ batches = <<>>
  /\ i = 0
  /\ retryCount = 0
  /\ aggregatedData = <<>>
  /\ errors = <<>>
  /\ wire = Idle
  /\ timerDue = 0
  /\ report = <<>>
  /\ httpStatus = 0
  /\ calls = 0
  /\ sleeps = 0
  /\ outcomes = <<>>
  /\ pauses = 0
  /\ dispatched = <<>>
  /\ ended = 0
  /\ delayed = MaxDelays
  /\ arrivals = <<>>
  /\ rejected = 0
  /\ attempted = <<>>
  /\ delivered = <<>>
  /\ freshStart = TRUE
  /\ retries = <<>>
  /\ admitted = <<>>
  /\ runs = <<>>

NextFull ==
  \/ Aggregate
  \/ MockHandle
  \/ FixedAnswer
  \/ ResponseEnd
  \/ RetryWake
  \/ PauseWake

SpecFull == InitFull /\ [][NextFull]_vars

(***************************************************************************)
(* Properties                                                              *)
(***************************************************************************)
RECURSIVE Flatten(_)
Flatten(ss) == IF ss = <<>> THEN <<>> ELSE Head(ss) \o Flatten(Tail(ss))

\* fetchWithRetry has returned the outcome of batch i + 1 to the loop.
BatchDone == pc \in {"pause", "returned"} /\ outcomes # <<>>

\* The descriptor of batch i + 1 is the last of errors.
FailureRecorded(status) ==
  /\ errors # <<>>
  /\ Last(errors).batch = i + 1
  /\ Last(errors).serialNumbers = batches[i + 1]
  /\ Last(errors).statusCode = status

\* C1: fetchWithRetry makes at most MAX_RETRIES + 1 network calls for a
\* batch, whatever the attempts' outcomes; when every attempt is answered
\* 429 it makes exactly MAX_RETRIES + 1 calls and then returns the failed
\* outcome with statusCode 429.
C1_RetryBound ==
  /\ calls <= MAX_RETRIES + 1
  /\ Len(outcomes) <= calls
  /\ (BatchDone /\ \A k \in 1..Len(outcomes) : outcomes[k] = "429")
       => /\ calls = MAX_RETRIES + 1
          /\ Len(outcomes) = MAX_RETRIES + 1
          /\ FailureRecorded(429)

C1_Witness ==
  /\ BatchDone
  /\ outcomes = <<"429", "429", "429", "429">>
  /\ calls = 4

\* C2: an attempt answered with a status that is neither 200 nor 429 is the
\* last of its batch: fetchWithRetry returns that outcome at once, with no
\* network call and no retry sleep after it, whatever retryCount is; a batch
\* whose first attempt is answered so has made exactly one call and slept
\* not at all.
C2_OtherFailureReturned ==
  \A k \in 1..Len(outcomes) :
    outcomes[k] = "other"
      => /\ k = Len(outcomes)
         /\ BatchDone
         /\ calls = k
         /\ sleeps = k - 1
         /\ retryCount = k - 1
         /\ errors # <<>>
         /\ Last(errors).batch = i + 1
         /\ Last(errors).statusCode \in OtherStatuses
         /\ (k = 1 => calls = 1 /\ sleeps = 0)

C2_Witness ==
  /\ BatchDone
  /\ outcomes = <<"other">>
  /\ calls = 1
  /\ sleeps = 0

\* C3: an attempt answered 200 with a body that cannot be parsed is returned
\* at once without retry: exactly one network call is made for that batch,
\* no retry sleep is taken, and the outcome is recorded with status 200.
C3_ParseFailureReturned ==
  \A k \in 1..Len(outcomes) :
    outcomes[k] = "parse"
      => /\ Len(outcomes) = 1
         /\ BatchDone
         /\ calls = 1
         /\ sleeps = 0
         /\ FailureRecorded(200)

\* C4: after every batch but the last, whatever its outcome, the loop pauses
\* RATE_LIMIT_MS before the first attempt of the next batch: one pause per
\* batch boundary, the next dispatch at least RATE_LIMIT_MS after the
\* outcome, the starts of two consecutive batches at least RATE_LIMIT_MS
\* apart, and no pause after the last batch.
C4_InterBatchPause ==
  /\ pc \in {"awaiting", "retrySleep", "pause", "returned", "thrown"}
       => pauses = i
  /\ Len(dispatched) = 2 => dispatched[2] - dispatched[1] >= RATE_LIMIT_MS
  /\ (pc \in {"awaiting", "retrySleep"} /\ i > 0)
       => Last(dispatched) - ended >= RATE_LIMIT_MS
  /\ pc = "pause" => timerDue = ended + RATE_LIMIT_MS /\ i < Len(batches) - 1
  /\ pc = "returned"
       => /\ timerDue = 0
          /\ batches # <<>> => pauses = Len(batches) - 1 /\ now = ended

C4_Witness ==
  /\ pc = "awaiting"
  /\ i = 1
  /\ Len(errors) = 1
  /\ Len(delivered) = 1
  /\ pauses = 1
  /\ Last(dispatched) - ended >= RATE_LIMIT_MS

\* C5: against the mock endpoint, when lastRequestTime was at least 950ms old
\* as the run began, no request of the run is answered 429 by rateLimiter,
\* and two consecutive requests of the run reach the endpoint at least 950ms
\* apart, whatever the latencies.
C5_NeverRateLimited ==
  (endpoint = "mock" /\ freshStart)
    => /\ rejected = 0
       /\ \A k \in 1..Len(outcomes) : outcomes[k] # "429"
       /\ Len(arrivals) = 2 => arrivals[2] - arrivals[1] >= RATE_WINDOW_MS

C5_Witness ==
  /\ endpoint = "mock"
  /\ freshStart
  /\ pc = "returned"
  /\ Len(batches) = 2
  /\ Len(arrivals) = 2
  /\ delayed > 0
  /\ errors = <<>>

\* C6: a terminal failure of a batch never aborts the run: the run throws
\* only on a 200 whose data cannot be spread, never on a failed outcome;
\* the batches are attempted one after the other in batch order; and a run
\* whose outcomes are failures or record lists ends by returning a report
\* after every batch was attempted.
C6_FailureNeverAborts ==
  /\ attempted = [k \in 1..Len(attempted) |-> k]
  /\ pc \in {"awaiting", "retrySleep", "pause"} => Len(attempted) = i + 1
  /\ pc = "thrown" => outcomes # <<>> /\ Last(outcomes) = "scalar"
  /\ pc = "returned"
       => /\ Len(attempted) = Len(batches)
          /\ Len(report) = 1
          /\ httpStatus = 200
  /\ (errors # <<>> /\ Last(errors).batch = i + 1)
       => /\ pc \in {"pause", "returned"}
          /\ pc = "returned" <=> i + 1 = Len(batches)

C6_Witness ==
  /\ pc = "returned"
  /\ Len(batches) = 2
  /\ Len(errors) = 2
  /\ errors[1].statusCode = 429
  /\ errors[2].statusCode = 0
  /\ attempted = <<1, 2>>

\* The batches of `entries` (delivered outcomes) that have no descriptor in
\* `errs`.
Succeeded(entries, errs) ==
  SelectSeq(entries, LAMBDA e : \A k \in 1..Len(errs) : errs[k].batch # e.batch)

Occurrences(entries, b) ==
  Cardinality({k \in 1..Len(entries) : entries[k].batch = b})

RECURSIVE SumOfLengths(_)
SumOfLengths(entries) ==
  IF entries = <<>> THEN 0
  ELSE Len(Head(entries).items) + SumOfLengths(Tail(entries))

\* C7: in every report each batch is accounted for exactly once, by its
\* records appended to data or by exactly one descriptor in errors; the
\* successful and the failed batches add up to the batches, fetchedDevices is
\* the length of data and failedBatches the length of errors.
C7_EachBatchAccountedOnce ==
  pc = "returned"
    => LET r == report[1]
           good == Succeeded(delivered, r.errors)
       IN  /\ \A b \in 1..Len(batches) :
                /\ Occurrences(delivered, b) = 1
                /\ Occurrences(r.errors, b) + Occurrences(good, b) = 1
           /\ Len(good) + r.failedBatches = Len(batches)
           /\ Len(r.data) = SumOfLengths(good)
           /\ r.fetchedDevices = Len(r.data)
           /\ r.failedBatches = Len(r.errors)

C7_Witness ==
  /\ pc = "returned"
  /\ Len(batches) = 2
  /\ report[1].failedBatches = 1
  /\ report[1].fetchedDevices = 1
  /\ errors[1].batch = 1

Range(seq) == {seq[k] : k \in 1..Len(seq)}

\* The identifiers of a list of records, and those of a list of descriptors.
IdsOf(records) == {records[k].sn : k \in 1..Len(records)}

IdsIn(errs) == UNION {Range(errs[k].serialNumbers) : k \in 1..Len(errs)}

\* C8: whenever a returned report has fetchedDevices < totalDevices, its
\* errors list is not empty and the identifiers missing from data are exactly
\* those of the serialNumbers of its descriptors.
C8_NoSilentTruncation ==
  (pc = "returned" /\ report[1].fetchedDevices < report[1].totalDevices)
    => /\ report[1].errors # <<>>
       /\ Range(serialNumbers) \ IdsOf(report[1].data) = IdsIn(report[1].errors)

\* C9: data holds the records of the successful batches in batch order and,
\* within a batch, in the order the endpoint returned them.
C9_DataInBatchOrder ==
  /\ \A k \in 1..Len(delivered) - 1 : delivered[k].batch < delivered[k + 1].batch
  /\ pc # "thrown"
       => aggregatedData =
            Flatten([k \in 1..Len(Succeeded(delivered, errors)) |->
                       Succeeded(delivered, errors)[k].items])
  /\ pc = "returned" => report[1].data = aggregatedData

C9_Witness ==
  /\ pc = "returned"
  /\ Len(batches) = 2
  /\ errors = <<>>
  /\ outcomes = <<"network", "429", "array">>
  /\ aggregatedData = <<deviceRecord(serialNumber(0)), deviceRecord(serialNumber(1))>>

\* createBatches' contract for one input.
IsPartition(array, size, bs) ==
  /\ Flatten(bs) = array
  /\ \A k \in 1..Len(bs) - 1 : Len(bs[k]) = size
  /\ \A k \in 1..Len(bs) : Len(bs[k]) \in 1..size
  /\ array = <<>> => bs = <<>>

\* C10: the batches of createBatches concatenate to the input, all but the
\* last have exactly the batch size, the last has 1..size entries and none is
\* empty (no batch for an empty population); the 500 identifiers of the run
\* give 50 batches of exactly 10.
C10_BatchesPartition ==
  pc = "batched"
    => /\ IsPartition(serialNumbers, batchSize, batches)
       /\ (Len(serialNumbers) = 500 /\ batchSize = 10)
            => /\ Len(batches) = 50
               /\ \A k \in 1..Len(batches) : Len(batches[k]) = 10

C10_Witness ==
  /\ pc = "batched"
  /\ serialNumbers = generateSerialNumbers(TOTAL_DEVICES)
  /\ batchSize = BATCH_SIZE
  /\ Len(batches) = 50
  /\ batches[50] = <<serialNumber(490), serialNumber(491), serialNumber(492),
                     serialNumber(493), serialNumber(494), serialNumber(495),
                     serialNumber(496), serialNumber(497), serialNumber(498),
                     serialNumber(499)>>

\* C11: createBatches called with a batch size of 0 or less on a population
\* that is not empty ends by signalling an error to its caller and returns
\* no batches; called with a positive size it never fails.
C11_NonPositiveSizeFails ==
  /\ (pc = "looping" /\ batchSize <= 0 /\ serialNumbers # <<>>)
       ~> (pc = "failed")
  /\ [](batchSize > 0 => pc \notin {"failed", "crashed"})

C13_ExponentialBackoff ==
  /\ Len(retries) <= MAX_RETRIES
  /\ \A k \in 2..Len(retries) :
       (retries[k].after = "429" /\ retries[k - 1].after = "429")
         => /\ retries[k].delay > retries[k - 1].delay
            /\ retries[k].delay % retries[k - 1].delay = 0

\* C14: two runs one after the other against an endpoint whose answers are
\* determined by its requests, the mock endpoint with its lastRequestTime
\* carried over included, return reports with the same totalDevices,
\* fetchedDevices and failedBatches.
C14_SecondRunSameCounts ==
  (pc = "returned" /\ Len(report) = 2)
    => /\ report[1].totalDevices = report[2].totalDevices
       /\ report[1].fetchedDevices = report[2].fetchedDevices
       /\ report[1].failedBatches = report[2].failedBatches

C14_Witness ==
  /\ endpoint = "mock"
  /\ freshStart
  /\ pc = "returned"
  /\ Len(report) = 2
  /\ Len(batches) = 2
  /\ rejected = 1
  /\ report[1].fetchedDevices = 2
  /\ report[2].fetchedDevices = 2
  /\ report[2].failedBatches = 0

\* C15: every attempt, first or retry, reads the clock as it sends and
\* carries that timestamp together with the digest of path + secret + that
\* timestamp; time never runs backwards and every request after the first of
\* a run is sent later than the state it is sent from, hence later than
\* every request before it, so no timestamp is that of an earlier attempt or
\* batch; and no request of the client is answered 401 by securityCheck.
C15_FreshSignaturePerAttempt ==
  /\ [](/\ wire.phase = "toServer"
             => wire.req = Request("/device/real/query",
                                   md5hex(<<"/device/real/query",
                                            "interview_token_123",
                                            toString(now)>>),
                                   toString(now), batches[i + 1])
        /\ wire.phase # "idle"
             => /\ wire.req.signature =
                     md5hex(<<wire.req.url, SECRET_TOKEN, wire.req.timestamp>>)
                /\ securityCheck(wire.req).statusCode = 200
                /\ wire.req.timestamp[2] <= now
        /\ endpoint = "mock"
             => /\ wire.resp.statusCode # 401
                /\ \A k \in 1..Len(outcomes) : outcomes[k] # "other")
  /\ [][/\ now' >= now
        /\ (wire'.phase = "toServer" /\ attempted # <<>>
             /\ (wire.phase # "toServer" \/ attempted' # attempted))
            => /\ wire'.req.timestamp = toString(now')
               /\ now' > now]_vars

C15_Witness ==
  /\ endpoint = "mock"
  /\ i = 1
  /\ retryCount = 1
  /\ wire.phase = "toClient"
  /\ wire.resp.statusCode = 200
  /\ wire.req.timestamp = toString(now)

\* The request in hand carries both headers and the digest of its URL, the
\* secret token and its timestamp.
Authentic(req) ==
  /\ ~missing(req.timestamp)
  /\ ~missing(req.signature)
  /\ req.signature = <<"md5", <<req.url, "interview_token_123", req.timestamp>>>>

\* C16: POST /device/real/query answers 200 with device data only a request
\* that carries both headers, with signature = MD5(URL + secret + timestamp),
\* and whose sn_list is an array of at most 10 entries; a request that lacks
\* a header or carries another signature and passes the rate limiter is
\* answered 401 and gets no data.
C16_DataOnlyWhenAuthentic ==
  wire.phase = "toClient"
    => /\ wire.resp.statusCode = 200
            => /\ Authentic(wire.req)
               /\ wire.req.isArray
               /\ Len(wire.req.sn_list) <= 10
       /\ wire.resp.shape = "array" => wire.resp.statusCode = 200
       /\ wire.resp.statusCode # 200 => wire.resp.items = <<>>
       /\ (~Authentic(wire.req) /\ wire.resp.statusCode # 429)
            => /\ wire.resp.statusCode = 401
               /\ wire.resp.shape = "text"
               /\ lastRequestTime = now

C16_Witness ==
  /\ wire.phase = "toClient"
  /\ wire.req.url # API_URL
  /\ wire.req.signature = md5hex(<<API_URL, SECRET_TOKEN, wire.req.timestamp>>)
  /\ Len(wire.req.sn_list) = 1
  /\ wire.resp.statusCode = 401
  /\ Len(admitted) = 2

\* C17: whatever requests arrive in whatever order from whatever callers,
\* two requests that pass rateLimiter arrived at least 950ms apart, and a
\* request that arrives less than 950ms after the last one let through is
\* answered 429 (and one that arrives later is not).
C17_RateCeiling ==
  /\ Len(admitted) = 2 => admitted[2] - admitted[1] >= 950
  /\ lastRequestTime = IF admitted = <<>> THEN 0 ELSE Last(admitted)
  /\ wire.phase = "toClient"
       => IF wire.resp.statusCode = 429
          THEN now - lastRequestTime < 950
          ELSE lastRequestTime = now

C17_Witness ==
  /\ wire.phase = "toClient"
  /\ wire.resp.statusCode = 429
  /\ Len(admitted) = 2
  /\ now - lastRequestTime = 949
  /\ arrivals = <<now, now>>

\* Every run under way ends, by returning or by throwing.
RunEnds == (pc = "awaiting") ~> (pc \in {"returned", "thrown"})

\* C18: when timers fire and every network call yields an outcome, every
\* batch under way reaches its outcome after at most MAX_RETRIES + 1 attempts
\* and the run returns its report.
C18_RunReturnsReport ==
  /\ [](calls <= MAX_RETRIES + 1)
  /\ (pc = "awaiting") ~> (pc = "returned" /\ report # <<>>)

\* The attempts of the batch just done: transient failures, then a 200 with
\* a list of records.
AbsorbedRetries ==
  /\ BatchDone
  /\ Last(outcomes) = "array"
  /\ \A k \in 1..Len(outcomes) - 1 : outcomes[k] \in {"429", "network"}

\* C19: when the attempts of a batch yield k <= MAX_RETRIES transient
\* failures (429 or network error, in any mix) and then a success, the
\* batch's records are appended to data, no descriptor is recorded for the
\* batch, and exactly k + 1 network calls were made for it.
C19_RetryAbsorbsTransients ==
  AbsorbedRetries
    => /\ Len(outcomes) - 1 <= MAX_RETRIES
       /\ calls = Len(outcomes)
       /\ sleeps = Len(outcomes) - 1
       /\ \A k \in 1..Len(errors) : errors[k].batch # i + 1
       /\ Last(delivered).batch = i + 1
       /\ Len(aggregatedData) = SumOfLengths(Succeeded(delivered, errors))
       /\ SubSeq(aggregatedData,
                 Len(aggregatedData) - Len(Last(delivered).items) + 1,
                 Len(aggregatedData)) = Last(delivered).items
       /\ pc = "returned" => report[1].data = aggregatedData

C19_Witness ==
  /\ AbsorbedRetries
  /\ outcomes = <<"429", "network", "429", "array">>
  /\ calls = 4
  /\ i = 1
  /\ errors = <<>>
  /\ Len(aggregatedData) = 2

\* The statuses and the error texts an outcome of this kind carries.
StatusesOf(kind) ==
  CASE kind = "429" -> {429}
    [] kind = "network" -> {0}
    [] kind = "other" -> OtherStatuses
    [] kind \in {"parse", "absent"} -> {200}

ErrorsOf(kind) ==
  CASE kind = "429" -> {"Too Many Requests", "Too Many Requests. Limit: 1 req/sec."}
    [] kind = "network" -> {"connection error"}
    [] kind = "other" -> {"error"}
    [] kind = "parse" -> {"Failed to parse response"}
    [] kind = "absent" -> {"undefined"}

\* C20: the descriptor recorded for a batch that failed for good names that
\* batch: batch is its 1-based position, serialNumbers its full content, and
\* error and statusCode are those of the outcome of its last attempt (the
\* status answered for another failure, 429 after rate limiting to the end,
\* 0 after connection errors to the end), not of an attempt before it.
C20_DescriptorNamesBatch ==
  /\ \A k \in 1..Len(errors) :
       /\ errors[k].batch \in 1..Len(batches)
       /\ errors[k].serialNumbers = batches[errors[k].batch]
       /\ k > 1 => errors[k - 1].batch < errors[k].batch
  /\ (BatchDone /\ Last(outcomes) # "array")
       => /\ errors # <<>>
          /\ Last(errors).batch = i + 1
          /\ Last(errors).serialNumbers = batches[i + 1]
          /\ Last(errors).serialNumbers
               = SubSeq(serialNumbers, i * batchSize + 1,
                        Min((i + 1) * batchSize, Len(serialNumbers)))
          /\ Last(errors).statusCode \in StatusesOf(Last(outcomes))
          /\ Last(errors).error \in ErrorsOf(Last(outcomes))
  /\ pc = "returned" => report[1].errors = errors

C20_Witness ==
  /\ BatchDone
  /\ i = 1
  /\ outcomes = <<"429", "429", "429", "network">>
  /\ Len(errors) = 2
  /\ errors[1].statusCode = 500
  /\ errors[2] = [batch |-> 2, serialNumbers |-> <<serialNumber(1)>>,
                  error |-> "connection error", statusCode |-> 0]

\* C21: within one run at most one network request is outstanding at any
\* moment: an attempt, retry or first attempt of the next batch, is started
\* only when every attempt of the run before it has produced its outcome;
\* and the accumulators of a run are written by that run alone, as it takes
\* an outcome, while another run is under way beside it.
C21_OneRequestPerRun ==
  /\ [](\A r \in Runs :
          /\ runs[r].sent - runs[r].settled \in {0, 1}
          /\ runs[r].pc = "awaiting" <=> runs[r].sent - runs[r].settled = 1
          /\ runs[r].wire.phase # "idle" <=> runs[r].pc = "awaiting")
  /\ [][\A r \in Runs :
          /\ runs'[r].sent # runs[r].sent
               => /\ runs'[r].sent = runs[r].sent + 1
                  /\ runs'[r].settled = runs[r].sent
          /\ (\/ runs'[r].aggregatedData # runs[r].aggregatedData
              \/ runs'[r].errors # runs[r].errors)
               => /\ runs[r].pc = "awaiting"
                  /\ runs'[r].settled = runs[r].settled + 1
                  /\ \A q \in Runs \ {r} : runs'[q] = runs[q]]_vars

C21_Witness ==
  /\ runs[1].pc = "awaiting"
  /\ runs[2].pc = "awaiting"
  /\ runs[1].i = 1
  /\ runs[1].retryCount = 1
  /\ runs[1].aggregatedData # <<>>
  /\ runs[2].i = 2
  /\ runs[2].startTime > runs[1].startTime
  /\ Len(runs[2].aggregatedData) = 2

\* The second activation was triggered while the first was under way.
Overlapped ==
  /\ runs[2].pc # "idle"
  /\ runs[2].startTime <= runs[1].due

\* C22: when GET /aggregate is triggered while a run is under way, both runs
\* fetch every device: each report returned has fetchedDevices equal to the
\* population and failedBatches = 0.
C22_OverlappingRunsFetchAll ==
  Overlapped
    => \A r \in Runs :
         runs[r].pc = "returned"
           => /\ Last(runs[r].report).fetchedDevices = Len(serialNumbers)
              /\ Last(runs[r].report).failedBatches = 0

\* C23: lastRequestTime changes exactly when a request passes rateLimiter:
\* a request answered 429 leaves it as it is, a request that passes sets it
\* to its arrival time, also when securityCheck (401) or the body validation
\* (400) rejects it afterwards, so that a request arriving less than 950ms
\* after a rejected one is answered 429 whatever it carries.
C23_SlotTakenBeforeAuth ==
  /\ [](wire.phase = "toClient"
          => /\ wire.resp.statusCode \in {200, 400, 401, 429}
             /\ wire.resp.statusCode # 429 => lastRequestTime = now)
  /\ [][/\ wire'.phase = "toClient"
        /\ IF wire'.resp.statusCode = 429
           THEN lastRequestTime' = lastRequestTime
           ELSE /\ lastRequestTime' = now'
                /\ lastRequestTime' # lastRequestTime
        /\ (/\ wire.phase = "toClient"
            /\ wire.resp.statusCode \in {400, 401}
            /\ now' - now < 950)
             => /\ wire'.resp.statusCode = 429
                /\ lastRequestTime' = now]_vars

C23_Witness ==
  /\ wire.phase = "toClient"
  /\ wire.resp.statusCode = 400
  /\ ~wire.req.isArray
  /\ Authentic(wire.req)
  /\ lastRequestTime = now
  /\ admitted = <<now - 950, now>>
  /\ arrivals = <<now - 950, now>>

\* C24: every report aggregateDeviceData returns has success = true and
\* totalDevices = 500 whatever the outcomes of the batches, also when every
\* batch failed (fetchedDevices = 0, failedBatches = 50); GET /aggregate
\* answers 200 exactly when the run has returned its report and 500 exactly
\* when it has thrown.
C24_SuccessWhateverOutcomes ==
  /\ \A k \in 1..Len(report) :
       /\ report[k].success = TRUE
       /\ report[k].totalDevices = 500
  /\ (pc = "returned" /\ Len(errors) = Len(batches))
       => /\ report[1].fetchedDevices = 0
          /\ report[1].failedBatches = 50
  /\ httpStatus \in {0, 200, 500}
  /\ httpStatus = 200 <=> pc = "returned"
  /\ httpStatus = 500 <=> pc = "thrown"
  /\ pc = "returned" <=> Len(report) = 1
  /\ pc # "returned" => report = <<>>

C24_Witness ==
  /\ pc = "returned"
  /\ endpoint = "limited"
  /\ httpStatus = 200
  /\ report[1].success = TRUE
  /\ report[1].totalDevices = 500
  /\ report[1].fetchedDevices = 0
  /\ report[1].failedBatches = 50

====
